---- MODULE Spec2Model ----
(***************************************************************************)
(* Model of the HERE Maps MCP server (src/src/node/index.ts): the tool     *)
(* registry, the call-tool dispatcher with its try/catch boundary, and the *)
(* six tool handlers with their outbound fetch and response normalisation. *)
(***************************************************************************)
EXTENDS Integers, Sequences, FiniteSets, TLC

(***************************************************************************)
(* Bounds of the model.                                                    *)
(***************************************************************************)
\* number of request slots the host transport hands to the handler
NumSlots == 2
\* longest upstream result list (items / routes / results)
MaxItems == 12
\* longest upstream result list where progress is checked
MaxShortItems == 2

Slots == 1..NumSlots

(***************************************************************************)
(* JavaScript values, as far as the handlers touch them.                   *)
(***************************************************************************)
JUndef == [k |-> "undefined"]
JNull == [k |-> "null"]
JStr(s) == [k |-> "string", s |-> s]
JNum(n) == [k |-> "number", n |-> n]
\* a number with five decimal digits, n * 10^-5 (what parseFloat(x.toFixed(5)) yields)
JDec5(n) == [k |-> "decimal5", n |-> n]
JArr(elems) == [k |-> "array", elems |-> elems]
JObj(keys, vals) == [k |-> "object", keys |-> keys, vals |-> vals]

\* the element of a one-element set: an operand written {e} under it is
\* evaluated once, however often the expression reads it
The(S) == CHOOSE x \in S : TRUE

IsNullish(v) == v.k \in {"undefined", "null"}

\* v[key] on a non-nullish value: an own property, or undefined
RECURSIVE Lookup(_, _, _)
Lookup(keys, vals, key) ==
  IF keys = <<>> THEN JUndef
  ELSE IF Head(keys) = key THEN Head(vals)
  ELSE Lookup(Tail(keys), Tail(vals), key)

Prop(v, key) ==
  The({IF x.k = "object" THEN Lookup(x.keys, x.vals, key) ELSE JUndef : x \in {v}})

\* an index counted from the wrong end: v[v.length - 1 - i]
IndexFromEnd(v, i) ==
  The({IF x.k = "array" /\ Len(x.elems) - i \in 1..Len(x.elems)
       THEN x.elems[Len(x.elems) - i] ELSE JUndef : x \in {v}})

\* v[i] for a zero-based index i
Index(v, i) ==
  The({IF x.k = "array" /\ i + 1 \in 1..Len(x.elems) THEN x.elems[i + 1] ELSE JUndef :
         x \in {v}})

\* a length test that never finds the value empty
LengthNeverZero(v) == FALSE

\* v.length === 0
LengthIsZero(v) ==
  \/ (v.k = "array" /\ v.elems = <<>>)
  \/ (v.k = "string" /\ v.s = "")

\* !v
Falsy(v) ==
  \/ v.k \in {"undefined", "null"}
  \/ (v.k = "string" /\ v.s = "")
  \/ (v.k \in {"number", "decimal5"} /\ v.n = 0)

\* String(v) of a primitive, as template literals and + apply it
ToStr(v) ==
  CASE v.k = "undefined" -> "undefined"
    [] v.k = "null" -> "null"
    [] v.k = "string" -> v.s
    [] v.k = "number" -> ToString(v.n)
    [] OTHER -> "[object Object]"

\* the TypeError V8 raises for reading property key of undefined or null
TypeErrorRead(v, key) ==
  [isError |-> TRUE,
   message |-> "Cannot read properties of " \o ToStr(v) \o " (reading '" \o key \o "')"]

(***************************************************************************)
(* JSON.stringify(value, null, indent)                                     *)
(***************************************************************************)
RECURSIVE Join(_, _)
Join(parts, sep) ==
  IF parts = <<>> THEN ""
  ELSE IF Len(parts) = 1 THEN parts[1]
  ELSE parts[1] \o sep \o Join(Tail(parts), sep)

\* the escape of one character inside a JSON string
EscapeChar(c) ==
  CASE c = "\"" -> "\\\""
    [] c = "\\" -> "\\\\"
    [] c = "\n" -> "\\n"
    [] c = "\t" -> "\\t"
    [] c = "\r" -> "\\r"
    [] c = "\f" -> "\\f"
    [] OTHER -> c

\* every character of s escaped, the string taken in halves
EscapeString[s \in STRING] ==
  IF s = "" THEN ""
  ELSE IF Len(s) = 1 THEN EscapeChar(s)
  ELSE EscapeString[SubSeq(s, 1, Len(s) \div 2)]
         \o EscapeString[SubSeq(s, Len(s) \div 2 + 1, Len(s))]

Escape(s) == EscapeString[s]

Quote(s) == "\"" \o Escape(s) \o "\""

RECURSIVE Digits5(_, _)
\* the fraction digits of f (0 <= f < 10^width), trailing zeros dropped
Digits5(f, width) ==
  IF f = 0 THEN ""
  ELSE LET unit == 10 ^ (width - 1)
       IN ToString(f \div unit) \o Digits5(f % unit, width - 1)

FormatDec5(n) ==
  LET a == IF n < 0 THEN 0 - n ELSE n
      frac == Digits5(a % 100000, 5)
  IN (IF n < 0 THEN "-" ELSE "") \o ToString(a \div 100000)
       \o (IF frac = "" THEN "" ELSE "." \o frac)

Spaces(n) == IF n = 0 THEN "" ELSE IF n = 2 THEN "  " ELSE " "

RECURSIVE Ser(_, _, _)
RECURSIVE SerElems(_, _, _)
RECURSIVE SerMembers(_, _, _, _)

\* the serialised elements of an array: undefined becomes null
SerElems(elems, gap, indent) ==
  IF elems = <<>> THEN <<>>
  ELSE <<IF Head(elems).k = "undefined" THEN "null" ELSE Ser(Head(elems), gap, indent)>>
         \o SerElems(Tail(elems), gap, indent)

\* the serialised members of an object: undefined-valued keys are omitted
SerMembers(keys, vals, gap, indent) ==
  IF keys = <<>> THEN <<>>
  ELSE (IF Head(vals).k = "undefined" THEN <<>>
        ELSE <<Quote(Head(keys)) \o (IF gap = "" THEN ":" ELSE ": ")
                 \o Ser(Head(vals), gap, indent)>>)
         \o SerMembers(Tail(keys), Tail(vals), gap, indent)

Bracket(open, close, parts, gap, stepback) ==
  IF parts = <<>> THEN open \o close
  ELSE IF gap = "" THEN open \o Join(parts, ",") \o close
  ELSE open \o "\n" \o stepback \o gap
         \o Join(parts, ",\n" \o stepback \o gap)
         \o "\n" \o stepback \o close

\* the parts are serialised once, then joined
Wrap(open, close, parts, gap, stepback) ==
  The({Bracket(open, close, p, gap, stepback) : p \in {parts}})

Ser(v, gap, indent) ==
  CASE v.k = "null" -> "null"
    [] v.k = "string" -> Quote(v.s)
    [] v.k = "number" -> ToString(v.n)
    [] v.k = "decimal5" -> FormatDec5(v.n)
    [] v.k = "array" ->
         Wrap("[", "]", SerElems(v.elems, gap, indent \o gap), gap, indent)
    [] v.k = "object" ->
         Wrap("{", "}", SerMembers(v.keys, v.vals, gap, indent \o gap), gap, indent)

\* the value is built once, then serialised
JsonStringify(v, space) == The({Ser(x, Spaces(space), "") : x \in {v}})

(***************************************************************************)
(* Process configuration and the tool registry.                            *)
(***************************************************************************)
\* getApiKey(): the process only serves requests with a non-empty key
HERE_MAPS_API_KEY == "test-api-key"

Property(name, type) == [name |-> name, type |-> type, enum |-> <<>>]
EnumProperty(name, type, enum) == [name |-> name, type |-> type, enum |-> enum]

GEOCODE_TOOL ==
  [name |-> "maps_geocode",
   description |-> "Convert an address into geographic coordinates",
   properties |-> <<Property("address", "string")>>,
   required |-> <<"address">>]

REVERSE_GEOCODE_TOOL ==
  [name |-> "maps_reverse_geocode",
   description |-> "Convert coordinates into an address",
   properties |-> <<Property("latitude", "number"), Property("longitude", "number")>>,
   required |-> <<"latitude", "longitude">>]

ROUTING_TOOL ==
  [name |-> "maps_directions",
   description |-> "Get directions between two points using HERE Maps Routing API",
   properties |->
     <<Property("origin", "string"), Property("destination", "string"),
       EnumProperty("transportMode", "string",
         <<"car", "pedestrian", "bicycle", "truck", "scooter", "bus", "taxi">>)>>,
   required |-> <<"origin", "destination", "transportMode">>]

PLACES_SEARCH_TOOL ==
  [name |-> "maps_search_places",
   description |-> "Search for places (e.g., restaurants, ATMs) near a specific location",
   properties |->
     <<Property("latitude", "number"), Property("longitude", "number"),
       Property("query", "string")>>,
   required |-> <<"latitude", "longitude", "query">>]

TRAFFIC_TOOL ==
  [name |-> "maps_get_traffic_incidents",
   description |-> "Retrieve traffic incidents within a circle",
   properties |-> <<Property("center", "string"), Property("radius", "number")>>,
   required |-> <<"center", "radius">>]

DISPLAY_TOOL ==
  [name |-> "maps_display",
   description |-> "Show a map with the given coordinates and zoom level",
   properties |->
     <<Property("center", "string"), Property("zoomLevel", "number"),
       EnumProperty("style", "string",
         <<"explore.day", "explore.night", "explore.satellite.day", "lite.day",
           "lite.night", "lite.satellite.day", "logistics.day", "logistics.night",
           "logistics.satellite.day", "satellite.day", "topo.day", "topo.night">>)>>,
   required |-> <<"center", "zoomLevel", "style">>]

MAPS_TOOLS ==
  <<GEOCODE_TOOL, REVERSE_GEOCODE_TOOL, ROUTING_TOOL, PLACES_SEARCH_TOOL,
    TRAFFIC_TOOL, DISPLAY_TOOL>>

(***************************************************************************)
(* Result envelopes and handler outcomes.                                  *)
(***************************************************************************)
Envelope(text, isError) ==
  [content |-> <<[type |-> "text", text |-> text]>>, isError |-> isError]

\* an async function's settlement: it returns an envelope or it rejects
Return(env) == [threw |-> FALSE, env |-> env]
Throw(error) == [threw |-> TRUE, error |-> error]

\* the request.params.arguments object: absent, or a record of named values
NoArguments == [present |-> FALSE, keys |-> <<>>, vals |-> <<>>]
Arguments(keys, vals) == [present |-> TRUE, keys |-> keys, vals |-> vals]
Arg(args, key) == Lookup(args.keys, args.vals, key)

\* const { a, ... } = request.params.arguments: throws when arguments is undefined
DestructureError(first) ==
  [isError |-> TRUE,
   message |-> "Cannot destructure property '" \o first
                 \o "' of 'request.params.arguments' as it is undefined."]

\* new URL(endpoint) with searchParams.append(name, value) in order
Request(endpoint, params) == [endpoint |-> endpoint, params |-> params]

(***************************************************************************)
(* decode() of @here/flexpolyline, on the encoded strings the upstream     *)
(* sends here: the decoded points in units of 10^-6 degree, or the error   *)
(* the library throws.                                                     *)
(***************************************************************************)
NoError == [none |-> TRUE]

DecodeString(encoded) ==
  CASE encoded.k # "string" ->
         Throw([isError |-> TRUE, message |-> ToStr(encoded) \o " is not iterable"])
    [] encoded.k = "string" /\ encoded.s = "BFoz5xJ67i1B1B7PzIhaxL7Y" ->
         [threw |-> FALSE,
          polyline |-> << <<50102280, 8698210>>, <<50102010, 8695670>>,
                          <<50100630, 8691500>>, <<50098780, 8687520>> >>]
    [] encoded.k = "string" /\ encoded.s = "BGkv6lkD8-gyZrv6lkD7iF" ->
         [threw |-> FALSE,
          polyline |-> << <<52524274, 13402606>>, <<-4, 13400000>> >>]
    [] encoded.k = "string" /\ encoded.s = "CFoz5xJ67i1B1B7PzIhaxL7Y" ->
         Throw([isError |-> TRUE, message |-> "Invalid format version"])
    [] OTHER -> Throw([isError |-> TRUE, message |-> "Invalid encoding"])

\* a decoder that stops at the first unreadable value and returns the points
\* read so far
DecodeLenient(encoded) ==
  The({IF DecodeString(e).threw
       THEN [threw |-> FALSE, polyline |-> << <<50102280, 8698210>> >>]
       ELSE DecodeString(e) : e \in {encoded}})

Decode(encoded) == The({DecodeString(e) : e \in {encoded}})

\* parseFloat(x.toFixed(5)) of x = micro * 10^-6, in units of 10^-5
RoundTo5(micro) ==
  IF micro >= 0 THEN (micro + 5) \div 10 ELSE 0 - ((5 - micro) \div 10)

(***************************************************************************)
(* The five network-backed handlers: the request each one issues, and the  *)
(* envelope it builds from the parsed response body.                       *)
(***************************************************************************)
\* handleGeocode, up to the fetch
GeocodeRequest(address) ==
  Request("https://geocode.search.hereapi.com/v1/geocode",
          << <<"q", ToStr(address)>>, <<"apiKey", HERE_MAPS_API_KEY>> >>)

\* handleGeocode, from the parsed body on
GeocodeNormalize(data) ==
  IF IsNullish(data) THEN Throw(TypeErrorRead(data, "items"))
  ELSE LET items == Prop(data, "items")
           first == Index(items, 0)
       IN IF Falsy(items) \/ LengthIsZero(items)
          THEN Return(Envelope("Geocoding failed: No results found", TRUE))
          ELSE IF IsNullish(first) THEN Throw(TypeErrorRead(first, "position"))
          ELSE IF IsNullish(Prop(first, "address"))
          THEN Throw(TypeErrorRead(Prop(first, "address"), "label"))
          ELSE Return(Envelope(
                 JsonStringify(
                   JObj(<<"location", "address", "id">>,
                        <<Prop(first, "position"),
                          Prop(Prop(first, "address"), "label"),
                          Prop(first, "id")>>), 2),
                 FALSE))

\* handleReverseGeocode, up to the fetch
ReverseGeocodeRequest(latitude, longitude) ==
  Request("https://revgeocode.search.hereapi.com/v1/revgeocode",
          << <<"at", ToStr(latitude) \o "," \o ToStr(longitude)>>,
             <<"apiKey", HERE_MAPS_API_KEY>> >>)

\* handleReverseGeocode, from the parsed body on
ReverseGeocodeNormalize(data) ==
  IF IsNullish(data) THEN Throw(TypeErrorRead(data, "items"))
  ELSE LET items == Prop(data, "items")
           first == Index(items, 0)
       IN IF Falsy(items) \/ LengthIsZero(items)
          THEN Return(Envelope("Reverse geocoding failed: No results found", TRUE))
          ELSE IF IsNullish(first) THEN Throw(TypeErrorRead(first, "address"))
          ELSE IF IsNullish(Prop(first, "address"))
          THEN Throw(TypeErrorRead(Prop(first, "address"), "label"))
          ELSE Return(Envelope(
                 JsonStringify(
                   JObj(<<"address", "position", "id">>,
                        <<Prop(Prop(first, "address"), "label"),
                          Prop(first, "position"),
                          Prop(first, "id")>>), 2),
                 FALSE))

\* handleRouting, up to the fetch
RoutingRequest(origin, destination, transportMode) ==
  Request("https://router.hereapi.com/v8/routes",
          << <<"origin", ToStr(origin)>>, <<"destination", ToStr(destination)>>,
             <<"transportMode", ToStr(transportMode)>>,
             <<"return", "summary,polyline,actions,instructions">>,
             <<"apiKey", HERE_MAPS_API_KEY>> >>)

\* [lat, lng] with each coordinate rounded to five decimals
RoundedPoint(point) == JArr(<<JDec5(RoundTo5(point[1])), JDec5(RoundTo5(point[2]))>>)

\* polyline.map(point => [round(lat), round(lng)])
RoundedPoints(polyline) ==
  The({JArr([j \in 1..Len(points) |-> RoundedPoint(points[j])]) : points \in {polyline}})

\* handleRouting, from the parsed body on
RoutingNormalize(data) ==
  IF IsNullish(data) THEN Throw(TypeErrorRead(data, "routes"))
  ELSE LET routes == Prop(data, "routes")
           route == Index(routes, 0)
           sections == Prop(route, "sections")
           section == Index(sections, 0)
           decoded == Decode(Prop(section, "polyline"))
       IN IF Falsy(routes) \/ LengthIsZero(routes)
          THEN Return(Envelope("Routing failed: No routes found", TRUE))
          ELSE IF IsNullish(route) THEN Throw(TypeErrorRead(route, "sections"))
          ELSE IF IsNullish(sections) THEN Throw(TypeErrorRead(sections, "0"))
          ELSE IF IsNullish(section) THEN Throw(TypeErrorRead(section, "polyline"))
          ELSE IF decoded.threw THEN decoded
          ELSE Return(Envelope(
                 JsonStringify(
                   JObj(<<"summary", "polyline", "actions">>,
                        <<Prop(section, "summary"),
                          RoundedPoints(decoded.polyline),
                          Prop(section, "actions")>>), 0),
                 FALSE))

\* handlePlacesSearch, up to the fetch
PlacesSearchRequest(latitude, longitude, query) ==
  Request("https://discover.search.hereapi.com/v1/discover",
          << <<"at", ToStr(latitude) \o "," \o ToStr(longitude)>>,
             <<"q", ToStr(query)>>, <<"apiKey", HERE_MAPS_API_KEY>> >>)

\* what mapping one item throws, if anything
PlaceError(item) ==
  IF IsNullish(item) THEN TypeErrorRead(item, "title")
  ELSE IF IsNullish(Prop(item, "address"))
  THEN TypeErrorRead(Prop(item, "address"), "label")
  ELSE NoError

\* item.categories?.[0]?.name || "Unknown"
PlaceCategory(item) ==
  LET categories == Prop(item, "categories")
      first == IF IsNullish(categories) THEN JUndef ELSE Index(categories, 0)
      name == IF IsNullish(first) THEN JUndef ELSE Prop(first, "name")
  IN IF Falsy(name) THEN JStr("Unknown") ELSE name

PlaceEntry(item) ==
  JObj(<<"name", "address", "position", "category">>,
       <<Prop(item, "title"), Prop(Prop(item, "address"), "label"),
         Prop(item, "position"), PlaceCategory(item)>>)

\* array.map(f), given what f throws on each element and what it returns for
\* each: the mapped array, or the error of the first element f throws on
MapOrThrow(errors, entries) ==
  The({LET bad == {j \in 1..Len(e) : e[j] # NoError}
       IN IF bad = {}
          THEN [threw |-> FALSE, value |-> JArr(entries)]
          ELSE Throw(e[CHOOSE j \in bad : \A l \in bad : j <= l]) : e \in {errors}})

\* items.map(item => ({name, address, position, category}))
MapPlaces(elems) ==
  MapOrThrow([j \in 1..Len(elems) |-> PlaceError(elems[j])],
             [j \in 1..Len(elems) |-> PlaceEntry(elems[j])])

\* handlePlacesSearch, from the parsed body on
PlacesSearchNormalize(data, query) ==
  IF IsNullish(data) THEN Throw(TypeErrorRead(data, "items"))
  ELSE LET items == Prop(data, "items")
           mapped == The({MapPlaces(e) : e \in {items.elems}})
       IN IF Falsy(items) \/ LengthIsZero(items)
          THEN Return(Envelope("No places found for query: " \o ToStr(query), TRUE))
          ELSE IF mapped.threw THEN mapped
          ELSE Return(Envelope(JsonStringify(mapped.value, 2), FALSE))

\* handleTrafficIncidents, up to the fetch
TrafficIncidentsRequest(center, radius) ==
  Request("https://data.traffic.hereapi.com/v7/incidents",
          << <<"in", "circle:" \o ToStr(center) \o ";r=" \o ToStr(radius)>>,
             <<"locationReferencing", "none">>,
             <<"apiKey", HERE_MAPS_API_KEY>> >>)

IncidentError(result) ==
  IF IsNullish(result) THEN TypeErrorRead(result, "incidentDetails")
  ELSE IF IsNullish(Prop(result, "incidentDetails"))
  THEN TypeErrorRead(Prop(result, "incidentDetails"), "description")
  ELSE NoError

IncidentEntry(result) ==
  LET details == Prop(result, "incidentDetails")
  IN JObj(<<"description", "startTime", "endTime", "type", "criticality">>,
          <<Prop(details, "description"), Prop(details, "startTime"),
            Prop(details, "endTime"), Prop(details, "type"),
            Prop(details, "criticality")>>)

\* the list passed on without the slice
SliceNone(elems) == SubSeq(elems, 1, Len(elems))

\* results.slice(0, 10)
Slice10(elems) == SubSeq(elems, 1, IF Len(elems) < 10 THEN Len(elems) ELSE 10)

\* results.map(result => ({description, startTime, endTime, type, criticality}))
MapIncidents(elems) ==
  MapOrThrow([j \in 1..Len(elems) |-> IncidentError(elems[j])],
             [j \in 1..Len(elems) |-> IncidentEntry(elems[j])])

\* handleTrafficIncidents, from the parsed body on
TrafficIncidentsNormalize(data, center, radius) ==
  IF IsNullish(data) THEN Throw(TypeErrorRead(data, "results"))
  ELSE LET results == Prop(data, "results")
           mapped == The({MapIncidents(e) : e \in {Slice10(results.elems)}})
       IN IF Falsy(results) \/ LengthIsZero(results)
          THEN Return(Envelope(
                 "No traffic incidents found in the radius of " \o ToStr(radius)
                   \o " meters around " \o ToStr(center), TRUE))
          ELSE IF mapped.threw THEN mapped
          ELSE Return(Envelope(JsonStringify(mapped.value, 0), FALSE))

(***************************************************************************)
(* handleDisplay: no fetch, the image URL only.                            *)
(***************************************************************************)
WhiteSpace == {" ", "\t", "\n", "\r", "\f"}

\* s without its leading run of white space (one match of \s+)
SkipRun[s \in STRING] ==
  IF s # "" /\ SubSeq(s, 1, 1) \in WhiteSpace THEN SkipRun[SubSeq(s, 2, Len(s))] ELSE s

\* every run of white space in s replaced by nothing
ReplaceRuns[s \in STRING] ==
  IF s = "" THEN ""
  ELSE IF SubSeq(s, 1, 1) \in WhiteSpace THEN ReplaceRuns[SkipRun[s]]
  ELSE SubSeq(s, 1, 1) \o ReplaceRuns[SubSeq(s, 2, Len(s))]

\* s with its first run of white space removed
DropFirstRun[s \in STRING] ==
  IF s = "" THEN ""
  ELSE IF SubSeq(s, 1, 1) \in WhiteSpace THEN SkipRun[s]
  ELSE SubSeq(s, 1, 1) \o DropFirstRun[SubSeq(s, 2, Len(s))]

\* s.replace(/\s+/, ""), the pattern without its g flag
StripFirstRun(s) == DropFirstRun[s]

\* s.replace(/\s+/g, "")
StripSpaces(s) == ReplaceRuns[s]

DisplayUrl(center, zoomLevel, style) ==
  "https://maps.hereapi.com/mia/v3/base/mc/center:" \o center \o ";zoom="
    \o ToStr(zoomLevel) \o "/480x370/png8?apikey=" \o HERE_MAPS_API_KEY
    \o "&style=" \o ToStr(style)

HandleDisplay(center, zoomLevel, style) ==
  IF IsNullish(center) THEN Throw(TypeErrorRead(center, "replace"))
  ELSE IF center.k # "string"
  THEN Throw([isError |-> TRUE, message |-> "center.replace is not a function"])
  ELSE Return(Envelope(
         JsonStringify(
           JObj(<<"image_url">>,
                <<JStr(DisplayUrl(StripSpaces(center.s), zoomLevel, style))>>), 0),
         FALSE))

(***************************************************************************)
(* The call-tool handler: the switch on the tool name and the catch.       *)
(***************************************************************************)
NetworkTools ==
  {"maps_geocode", "maps_reverse_geocode", "maps_directions", "maps_search_places",
   "maps_get_traffic_incidents"}

\* the case labels of the switch
Routes == NetworkTools \cup {"maps_display"}

\* the first name each case destructures from the arguments
FirstParam(name) ==
  CASE name = "maps_geocode" -> "address"
    [] name \in {"maps_reverse_geocode", "maps_search_places"} -> "latitude"
    [] name = "maps_directions" -> "origin"
    [] OTHER -> "center"

\* the request a network-backed case issues before its first await
OutboundRequest(name, args) ==
  CASE name = "maps_geocode" -> GeocodeRequest(Arg(args, "address"))
    [] name = "maps_reverse_geocode" ->
         ReverseGeocodeRequest(Arg(args, "latitude"), Arg(args, "longitude"))
    [] name = "maps_directions" ->
         RoutingRequest(Arg(args, "origin"), Arg(args, "destination"),
                        Arg(args, "transportMode"))
    [] name = "maps_search_places" ->
         PlacesSearchRequest(Arg(args, "latitude"), Arg(args, "longitude"),
                             Arg(args, "query"))
    [] name = "maps_get_traffic_incidents" ->
         TrafficIncidentsRequest(Arg(args, "center"), Arg(args, "radius"))

\* what a network-backed case does with the parsed body
Normalize(name, args, data) ==
  CASE name = "maps_geocode" -> GeocodeNormalize(data)
    [] name = "maps_reverse_geocode" -> ReverseGeocodeNormalize(data)
    [] name = "maps_directions" -> RoutingNormalize(data)
    [] name = "maps_search_places" -> PlacesSearchNormalize(data, Arg(args, "query"))
    [] name = "maps_get_traffic_incidents" ->
         TrafficIncidentsNormalize(data, Arg(args, "center"), Arg(args, "radius"))

\* a default case that leaves the requested name out of its text
UnknownToolUnnamed(name) == Envelope("Unknown tool", TRUE)

\* the default case
UnknownTool(name) == Envelope("Unknown tool: " \o name, TRUE)

\* a catch clause that leaves isError unset
CatchEnvelopeUnflagged(error) ==
  Envelope("Error: " \o (IF error.isError THEN error.message ELSE ToStr(error.value)),
           FALSE)

\* a catch clause that reports a fixed text instead of the message
CatchEnvelopeGeneric(error) ==
  Envelope("Error: " \o (IF error.isError THEN "request failed" ELSE "unknown"), TRUE)

\* the catch clause
CatchEnvelope(error) ==
  Envelope("Error: " \o (IF error.isError THEN error.message ELSE ToStr(error.value)),
           TRUE)

\* a handler without the catch clause: a thrown error leaves it
TryOnly(outcome) ==
  IF outcome.threw
  THEN [returns |-> <<>>, throws |-> <<outcome.error>>]
  ELSE [returns |-> <<outcome.env>>, throws |-> <<>>]

\* what leaves the handler once its body settles: the try block's envelope, or
\* the catch clause's; nothing is rethrown
TryCatch(outcome) ==
  IF outcome.threw
  THEN [returns |-> <<CatchEnvelope(outcome.error)>>, throws |-> <<>>]
  ELSE [returns |-> <<outcome.env>>, throws |-> <<>>]

(***************************************************************************)
(* The environment: the invocations the host sends and what the upstream   *)
(* service does with the one request an invocation may issue.              *)
(***************************************************************************)
UnknownNames == {"maps_route", "geocode"}
ToolNames == Routes \cup UnknownNames

Centers == {"52.5,13.4", "52.5, 13.4", " 52.5 ,\t13.4 ", "52.5  ,\n 13.4", "48.1,11.6"}

ArgumentsFor(name) ==
  {NoArguments, Arguments(<<>>, <<>>)} \cup
  CASE name = "maps_geocode" ->
         {Arguments(<<"address">>, <<JStr("Invalidenstr 116, Berlin")>>)}
    [] name = "maps_reverse_geocode" ->
         {Arguments(<<"latitude", "longitude">>, <<JNum(52), JNum(13)>>)}
    [] name = "maps_directions" ->
         {Arguments(<<"origin", "destination", "transportMode">>,
                    <<JStr("52.5,13.4"), JStr("48.1,11.6"), JStr("car")>>)}
    [] name = "maps_search_places" ->
         {Arguments(<<"latitude", "longitude", "query">>, <<JNum(52), JNum(13), JStr(q)>>) :
            q \in {"coffee", "atm"}}
    [] name = "maps_get_traffic_incidents" ->
         {Arguments(<<"center", "radius">>, <<JStr("52.5,13.4"), JNum(r)>>) :
            r \in {500, 1000}}
    [] name = "maps_display" ->
         {Arguments(<<"center", "zoomLevel", "style">>, <<JStr(c), JNum(z), JStr(st)>>) :
            c \in Centers, z \in {3, 14}, st \in {"explore.day", "topo.night"}}
         \cup {Arguments(<<"center">>, <<JStr("52.5,13.4")>>),
               Arguments(<<"center", "zoomLevel", "style">>,
                         <<JNum(52), JNum(14), JStr("explore.day")>>)}
    [] OTHER -> {}

\* what the upstream does: fetch rejects; the body is no JSON; or a JSON body
Rejects(message) ==
  [kind |-> "reject", error |-> [isError |-> TRUE, message |-> message]]
Malformed(status, message) ==
  [kind |-> "malformed", status |-> status,
   error |-> [isError |-> TRUE, message |-> message]]
Body(status, data) == [kind |-> "body", status |-> status, data |-> data]

Position(id) ==
  JObj(<<"lat", "lng">>, <<JDec5(5252427 + id), JDec5(1340260 - id)>>)
Address(id) == JObj(<<"label">>, <<JStr("Rosenthaler Str. " \o ToString(id))>>)

GeocodeItem(id) ==
  JObj(<<"title", "id", "position", "address">>,
       <<JStr("Place " \o ToString(id)), JStr("here:pds:place:" \o ToString(id)),
         Position(id), Address(id)>>)

Section(id, polyline) ==
  JObj(<<"summary", "actions", "polyline">>,
       <<JObj(<<"duration", "length">>, <<JNum(60 * id), JNum(1000 * id)>>),
         JArr(<<JObj(<<"action", "instruction">>,
                     <<JStr("depart"), JStr("Head north " \o ToString(id))>>)>>),
         polyline>>)

Route(id) ==
  JObj(<<"id", "sections">>,
       <<JStr("route-" \o ToString(id)),
         JArr(<<Section(id, JStr(IF id % 2 = 1 THEN "BFoz5xJ67i1B1B7PzIhaxL7Y"
                                 ELSE "BGkv6lkD8-gyZrv6lkD7iF")),
                Section(id + 1, JStr("BFoz5xJ67i1B1B7PzIhaxL7Y"))>>)>>)

PlaceItem(id) ==
  JObj(<<"title", "address", "position", "categories">>,
       <<JStr("Cafe " \o ToString(id)), Address(id), Position(id),
         CASE id % 3 = 1 -> JArr(<<JObj(<<"name">>, <<JStr("Coffee Shop")>>),
                                   JObj(<<"name">>, <<JStr("Bakery")>>)>>)
           [] id % 3 = 2 -> JUndef
           [] OTHER -> JArr(<<>>)>>)

Incident(id) ==
  JObj(<<"location", "incidentDetails">>,
       <<JObj(<<"length">>, <<JNum(100 * id)>>),
         JObj(<<"description", "startTime", "endTime", "criticality", "type">>,
              <<JStr("Incident " \o ToString(id)), JStr("2024-01-01T00:00:00Z"),
                JStr("2024-01-02T00:00:00Z"), JStr("minor"), JStr("construction")>>)>>)

ListField(name) ==
  CASE name = "maps_directions" -> "routes"
    [] name = "maps_get_traffic_incidents" -> "results"
    [] OTHER -> "items"

GoodItem(name, id) ==
  CASE name \in {"maps_geocode", "maps_reverse_geocode"} -> GeocodeItem(id)
    [] name = "maps_directions" -> Route(id)
    [] name = "maps_search_places" -> PlaceItem(id)
    [] OTHER -> Incident(id)

\* the ways one element of the list departs from the documented shape
Faults(name) ==
  {"null", "nonested"} \cup
  CASE name \in {"maps_geocode", "maps_reverse_geocode"} -> {"noid"}
    [] name = "maps_directions" ->
         {"nosection", "truncated", "badversion", "nopolyline"}
    [] OTHER -> {}

FaultyItem(name, id, fault) ==
  CASE fault = "null" -> JNull
    [] fault = "noid" ->
         JObj(<<"title", "position", "address">>,
              <<JStr("Place " \o ToString(id)), Position(id), Address(id)>>)
    [] fault = "nosection" -> JObj(<<"id", "sections">>, <<JStr("route"), JArr(<<>>)>>)
    [] fault = "truncated" ->
         JObj(<<"id", "sections">>,
              <<JStr("route"), JArr(<<Section(id, JStr("BFoz5xJ67i1B1B7PzIhaxL7"))>>)>>)
    [] fault = "badversion" ->
         JObj(<<"id", "sections">>,
              <<JStr("route"), JArr(<<Section(id, JStr("CFoz5xJ67i1B1B7PzIhaxL7Y"))>>)>>)
    [] fault = "nopolyline" ->
         JObj(<<"id", "sections">>, <<JStr("route"), JArr(<<Section(id, JUndef)>>)>>)
    [] OTHER -> JObj(<<"title", "id">>,
                     <<JStr("Place " \o ToString(id)), JStr("x" \o ToString(id))>>)

\* the positions at which a list of n elements may hold its faulty element
FaultPositions(n) == {p \in 1..n : p <= 2 \/ p >= 10}

ResultList(name, n, at, fault) ==
  JArr([j \in 1..n |-> IF j = at THEN FaultyItem(name, j, fault) ELSE GoodItem(name, j)])

ListBody(name, list) ==
  JObj(<<"sourceUpdated", ListField(name)>>, <<JStr("2024-01-01T00:00:00Z"), list>>)

ErrorBody ==
  JObj(<<"title", "status", "code">>, <<JStr("Unauthorized"), JNum(401), JStr("E600101")>>)

\* the bodies that carry a result list of at most max elements
ListBodies(name, max) ==
  {ListBody(name, ResultList(name, n, 0, "null")) : n \in 0..max}
  \cup UNION {{ListBody(name, ResultList(name, n, at, fault)) :
                   at \in FaultPositions(n), fault \in Faults(name)} : n \in 1..max}

Upstreams(name, max) ==
  {Rejects("request to upstream failed, reason: connect ECONNREFUSED"),
   Rejects("network timeout"),
   Malformed(502, "invalid json response body, reason: Unexpected token < in JSON at position 0"),
   Body(200, JNull), Body(401, ErrorBody), Body(200, ErrorBody),
   Body(200, ListBody(name, JNull)),
   Body(429, ListBody(name, JArr(<<>>))),
   Body(404, ListBody(name, ResultList(name, 1, 0, "null")))}
  \cup IF name \in NetworkTools
       THEN {Body(200, b) : b \in ListBodies(name, max)}
       ELSE {Body(200, ListBody(name, JArr(<<>>)))}

InputsOf(name, max) ==
  {[name |-> name, args |-> args, upstream |-> up] :
     args \in ArgumentsFor(name), up \in Upstreams(name, max)}

\* every invocation whose upstream list has at most MaxItems elements
Inputs == UNION {InputsOf(name, MaxItems) : name \in ToolNames}

\* the same with lists of at most MaxShortItems elements
ShortInputs == UNION {InputsOf(name, MaxShortItems) : name \in ToolNames}

(***************************************************************************)
(* State.                                                                  *)
(***************************************************************************)
VARIABLES
  pc,        \* per slot: "idle", "called", "fetching", "parsing" or "done"
  request,   \* per slot: the invocation's tool name and arguments
  upstream,  \* per slot: what the upstream does with this invocation's request
  calls,     \* per slot: the outbound requests the invocation has issued
  returned,  \* per slot: the envelopes the handler has returned
  uncaught,  \* per slot: the errors that left the handler
  listed     \* the answer of the latest list-tools request, <<>> before the first

vars == <<pc, request, upstream, calls, returned, uncaught, listed>>

NoRequest == [name |-> "", args |-> NoArguments]
NoUpstream == [kind |-> "none"]

Init ==
  /\ pc = [i \in Slots |-> "idle"]
  /\ request = [i \in Slots |-> NoRequest]
  /\ upstream = [i \in Slots |-> NoUpstream]
  /\ calls = [i \in Slots |-> <<>>]
  /\ returned = [i \in Slots |-> <<>>]
  /\ uncaught = [i \in Slots |-> <<>>]
  /\ listed = <<>>

(***************************************************************************)
(* Actions.                                                                *)
(***************************************************************************)
\* a list-tools handler that answers with the catalogue rotated on each call
ListToolsRotating ==
  /\ listed' = IF listed = <<>> THEN MAPS_TOOLS ELSE Tail(listed) \o <<Head(listed)>>
  /\ UNCHANGED <<pc, request, upstream, calls, returned, uncaught>>

\* ListToolsRequestSchema handler
ListTools ==
  /\ listed' = MAPS_TOOLS
  /\ UNCHANGED <<pc, request, upstream, calls, returned, uncaught>>

\* a call-tool request reaches the server in a free slot
Invoke(i, inputs) ==
  /\ pc[i] = "idle"
  /\ \E in \in inputs :
       /\ request' = [request EXCEPT ![i] = [name |-> in.name, args |-> in.args]]
       /\ upstream' = [upstream EXCEPT ![i] = in.upstream]
  /\ pc' = [pc EXCEPT ![i] = "called"]
  /\ UNCHANGED <<calls, returned, uncaught, listed>>

\* the handler body settles with the outcome of body: the envelope is returned
Settle(i, body) ==
  \E settled \in {TryCatch(outcome) : outcome \in {body}} :
    /\ returned' = [returned EXCEPT ![i] = @ \o settled.returns]
    /\ uncaught' = [uncaught EXCEPT ![i] = @ \o settled.throws]
    /\ pc' = [pc EXCEPT ![i] = "done"]

\* the synchronous part of the handler: the switch, the destructuring of the
\* arguments, and the matching handle function up to its first await
Dispatch(i) ==
  /\ pc[i] = "called"
  /\ LET name == request[i].name
         args == request[i].args
     IN IF name \notin Routes
        THEN Settle(i, Return(UnknownTool(name))) /\ UNCHANGED calls
        ELSE IF ~args.present
        THEN Settle(i, Throw(DestructureError(FirstParam(name)))) /\ UNCHANGED calls
        ELSE IF name = "maps_display"
        THEN /\ Settle(i, HandleDisplay(Arg(args, "center"), Arg(args, "zoomLevel"),
                                        Arg(args, "style")))
             /\ UNCHANGED calls
        ELSE /\ calls' = [calls EXCEPT ![i] = Append(@, OutboundRequest(name, args))]
             /\ pc' = [pc EXCEPT ![i] = "fetching"]
             /\ UNCHANGED <<returned, uncaught>>
  /\ UNCHANGED <<request, upstream, listed>>

\* a fetch that is issued a second time after it rejects
FetchRetried(i) ==
  /\ pc[i] = "fetching"
  /\ IF upstream[i].kind = "reject" /\ Len(calls[i]) < 2
     THEN /\ calls' = [calls EXCEPT ![i] = Append(@, Head(@))]
          /\ UNCHANGED <<pc, returned, uncaught>>
     ELSE IF upstream[i].kind = "reject"
     THEN Settle(i, Throw(upstream[i].error)) /\ UNCHANGED calls
     ELSE /\ pc' = [pc EXCEPT ![i] = "parsing"]
          /\ UNCHANGED <<calls, returned, uncaught>>
  /\ UNCHANGED <<request, upstream, listed>>

\* a handler that answers when a timer of its own fires, its fetch still pending
FetchAbandoned(i) ==
  /\ pc[i] = "fetching"
  /\ returned[i] = <<>>
  /\ returned' = [returned EXCEPT ![i] = <<CatchEnvelope(upstream[i].error)>>]
  /\ upstream[i].kind = "reject"
  /\ UNCHANGED <<pc, request, upstream, calls, uncaught, listed>>

\* await fetch(url): the promise rejects, or resolves with a response
FetchSettles(i) ==
  /\ pc[i] = "fetching"
  /\ IF upstream[i].kind = "reject"
     THEN Settle(i, Throw(upstream[i].error))
     ELSE /\ pc' = [pc EXCEPT ![i] = "parsing"]
          /\ UNCHANGED <<returned, uncaught>>
  /\ UNCHANGED <<request, upstream, calls, listed>>

\* a handler that rejects every response whose status is not 2xx
JsonSettlesOkOnly(i) ==
  /\ pc[i] = "parsing"
  /\ IF upstream[i].kind = "malformed"
     THEN Settle(i, Throw(upstream[i].error))
     ELSE IF upstream[i].status >= 300
     THEN Settle(i, Throw([isError |-> TRUE,
                           message |-> "HTTP " \o ToString(upstream[i].status)]))
     ELSE Settle(i, Normalize(request[i].name, request[i].args, upstream[i].data))
  /\ UNCHANGED <<request, upstream, calls, listed>>

\* a handler that keeps the response in a variable of the module, so that an
\* invocation normalises the response of whichever invocation stored one first
JsonSettlesShared(i) ==
  /\ pc[i] = "parsing"
  /\ LET first == CHOOSE j \in Slots :
                    pc[j] = "parsing" /\ \A l \in Slots : pc[l] = "parsing" => j <= l
     IN IF upstream[first].kind = "malformed"
        THEN Settle(i, Throw(upstream[first].error))
        ELSE Settle(i, Normalize(request[i].name, request[i].args, upstream[first].data))
  /\ UNCHANGED <<request, upstream, calls, listed>>

\* await response.json(): it rejects, or the body is normalised
JsonSettles(i) ==
  /\ pc[i] = "parsing"
  /\ IF upstream[i].kind = "malformed"
     THEN Settle(i, Throw(upstream[i].error))
     ELSE Settle(i, Normalize(request[i].name, request[i].args, upstream[i].data))
  /\ UNCHANGED <<request, upstream, calls, listed>>

\* the host transport sends the envelope to the caller and frees the slot
Deliver(i) ==
  /\ pc[i] = "done"
  /\ pc' = [pc EXCEPT ![i] = "idle"]
  /\ request' = [request EXCEPT ![i] = NoRequest]
  /\ upstream' = [upstream EXCEPT ![i] = NoUpstream]
  /\ calls' = [calls EXCEPT ![i] = <<>>]
  /\ returned' = [returned EXCEPT ![i] = <<>>]
  /\ uncaught' = [uncaught EXCEPT ![i] = <<>>]
  /\ UNCHANGED listed

\* one invocation at a time, over the whole input space
Arrive(i) ==
  /\ \A j \in Slots \ {i} : pc[j] = "idle"
  /\ Invoke(i, Inputs)

Next ==
  \/ ListTools
  \/ \E i \in Slots : Arrive(i)
  \/ \E i \in Slots : Dispatch(i)
  \/ \E i \in Slots : FetchSettles(i)
  \/ \E i \in Slots : JsonSettles(i)
  \/ \E i \in Slots : Deliver(i)

Spec == Init /\ [][Next]_vars

\* the same, one invocation at a time, over the short upstream lists
ArriveShort(i) ==
  /\ \A j \in Slots \ {i} : pc[j] = "idle"
  /\ Invoke(i, ShortInputs)

NextShort ==
  \/ ListTools
  \/ \E i \in Slots : ArriveShort(i)
  \/ \E i \in Slots : Dispatch(i)
  \/ \E i \in Slots : FetchSettles(i)
  \/ \E i \in Slots : JsonSettles(i)
  \/ \E i \in Slots : Deliver(i)

\* the event loop runs every handler step that is ready; the upstream call is
\* assumed to complete or fail
Fairness ==
  \A i \in Slots :
    /\ WF_vars(Dispatch(i))
    /\ WF_vars(FetchSettles(i))
    /\ WF_vars(JsonSettles(i))

FairSpec == Init /\ [][NextShort]_vars /\ Fairness

(***************************************************************************)
(* Several invocations in flight at once: the host transport hands a new   *)
(* request to the handler while earlier ones wait on their fetch, and the  *)
(* awaited calls settle in any order.                                      *)
(***************************************************************************)
\* a few invocations of each kind: failing, empty, successful, no fetch at all
FewInputs ==
  {[name |-> "maps_geocode", args |-> args, upstream |-> up] :
     args \in {NoArguments,
               Arguments(<<"address">>, <<JStr("Invalidenstr 116, Berlin")>>)},
     up \in {Rejects("network timeout"),
             Body(200, ListBody("maps_geocode", JArr(<<>>))),
             Body(200, ListBody("maps_geocode", ResultList("maps_geocode", 2, 0, "null")))}}
  \cup
  {[name |-> "maps_directions",
    args |-> Arguments(<<"origin", "destination", "transportMode">>,
                       <<JStr("52.5,13.4"), JStr("48.1,11.6"), JStr("car")>>),
    upstream |-> up] :
     up \in {Malformed(502, "invalid json response body"),
             Body(200, ListBody("maps_directions",
                                ResultList("maps_directions", 1, 1, "truncated"))),
             Body(200, ListBody("maps_directions",
                                ResultList("maps_directions", 1, 0, "null")))}}
  \cup
  {[name |-> "maps_display",
    args |-> Arguments(<<"center", "zoomLevel", "style">>,
                       <<JStr("52.5, 13.4"), JNum(14), JStr("explore.day")>>),
    upstream |-> Rejects("network timeout")],
   [name |-> "maps_route", args |-> NoArguments, upstream |-> Rejects("network timeout")]}

\* a request arrives in any free slot, whatever the other slots are doing
ArriveAny(i) == Invoke(i, FewInputs)

NextConcurrent ==
  \/ ListTools
  \/ \E i \in Slots : ArriveAny(i)
  \/ \E i \in Slots : Dispatch(i)
  \/ \E i \in Slots : FetchSettles(i)
  \/ \E i \in Slots : JsonSettles(i)
  \/ \E i \in Slots : Deliver(i)

ConcurrentSpec == Init /\ [][NextConcurrent]_vars

(***************************************************************************)
(* Vocabulary of the properties: what an invocation was given, read off    *)
(* its request and its upstream, not off the handlers.                     *)
(***************************************************************************)
Done(i) == pc[i] = "done"
TheEnvelope(i) == returned[i][1]
TheText(i) == TheEnvelope(i).content[1].text

RegisteredNames == {MAPS_TOOLS[j].name : j \in 1..Len(MAPS_TOOLS)}

StartsWith(s, prefix) == Len(s) >= Len(prefix) /\ SubSeq(s, 1, Len(prefix)) = prefix
Contains(s, sub) == \E k \in 1..(Len(s) - Len(sub) + 1) : SubSeq(s, k, k + Len(sub) - 1) = sub

\* the invocation reached its handle function with an arguments object
HasArguments(i) == request[i].args.present

\* the upstream answered with a JSON body that is an object
AnsweredObject(i) == upstream[i].kind = "body" /\ upstream[i].data.k = "object"

\* the result list of the body, when the body has one
TheList(i) == Prop(upstream[i].data, ListField(request[i].name))
HasList(i) == AnsweredObject(i) /\ TheList(i).k = "array"
NonEmptyList(i) == HasList(i) /\ Len(TheList(i).elems) >= 1
EmptyList(i) == HasList(i) /\ Len(TheList(i).elems) = 0

ValidPolylines == {"BFoz5xJ67i1B1B7PzIhaxL7Y", "BGkv6lkD8-gyZrv6lkD7iF"}

\* the element has the nested object the tool reads from it
Shaped(name, item) ==
  /\ item.k = "object"
  /\ CASE name = "maps_get_traffic_incidents" -> Prop(item, "incidentDetails").k = "object"
       [] name = "maps_directions" ->
            /\ Prop(item, "sections").k = "array"
            /\ Prop(item, "sections").elems # <<>>
            /\ Prop(item, "sections").elems[1].k = "object"
            /\ Prop(Prop(item, "sections").elems[1], "polyline").k = "string"
            /\ Prop(Prop(item, "sections").elems[1], "polyline").s \in ValidPolylines
       [] OTHER -> Prop(item, "address").k = "object"

\* how many leading elements of a list of n the tool reads
ReadCount(name, n) ==
  CASE name \in {"maps_geocode", "maps_reverse_geocode", "maps_directions"} -> 1
    [] name = "maps_get_traffic_incidents" -> IF n < 10 THEN n ELSE 10
    [] OTHER -> n

\* a non-empty upstream result reached the tool and every element it reads is
\* well formed
UsableResult(i) ==
  /\ request[i].name \in NetworkTools
  /\ HasArguments(i)
  /\ NonEmptyList(i)
  /\ \A j \in 1..ReadCount(request[i].name, Len(TheList(i).elems)) :
       Shaped(request[i].name, TheList(i).elems[j])

\* the display tool was given a center string
DisplayBuilt(i) ==
  /\ request[i].name = "maps_display"
  /\ HasArguments(i)
  /\ Arg(request[i].args, "center").k = "string"

\* the upstream call of a network-backed tool failed: fetch rejected, or the
\* body was no JSON
UpstreamFailed(i) ==
  /\ request[i].name \in NetworkTools
  /\ HasArguments(i)
  /\ upstream[i].kind \in {"reject", "malformed"}

(***************************************************************************)
(* C1: every invocation returns exactly one envelope and no exception      *)
(* leaves the handler; given that the outbound call completes or fails,    *)
(* every started invocation reaches the state in which its envelope has    *)
(* been returned.                                                          *)
(***************************************************************************)
OneEnvelope ==
  \A i \in Slots :
    /\ uncaught[i] = <<>>
    /\ Len(returned[i]) = (IF Done(i) THEN 1 ELSE 0)

C1_ExactlyOneEnvelope ==
  /\ []OneEnvelope
  /\ \A i \in Slots : (pc[i] = "called") ~> (Done(i) /\ Len(returned[i]) = 1)

C1_Witness ==
  \E i \in Slots :
    /\ Done(i)
    /\ request[i].name = "maps_directions"
    /\ NonEmptyList(i)
    /\ ~UsableResult(i)
    /\ Len(returned[i]) = 1

(***************************************************************************)
(* C2: a returned envelope has at least one content element of type text   *)
(* whose text is a string, and isError is false exactly when a non-empty   *)
(* upstream result was normalised or a display URL was built.              *)
(***************************************************************************)
C2_EnvelopeShape ==
  \A i \in Slots :
    Done(i) =>
      /\ Len(TheEnvelope(i).content) >= 1
      /\ \E j \in 1..Len(TheEnvelope(i).content) :
           /\ TheEnvelope(i).content[j].type = "text"
           /\ TheEnvelope(i).content[j].text \in STRING
      /\ TheEnvelope(i).isError \in BOOLEAN
      /\ (TheEnvelope(i).isError = FALSE) <=> (UsableResult(i) \/ DisplayBuilt(i))

C2_Witness ==
  \E i \in Slots :
    /\ Done(i)
    /\ request[i].name = "maps_search_places"
    /\ UsableResult(i)
    /\ TheEnvelope(i).isError = FALSE

(***************************************************************************)
(* C3: a tool name outside the registry gets the envelope "Unknown tool:   *)
(* <name>" with isError true, not the catch clause's envelope, and no      *)
(* outbound call is issued for it.                                         *)
(***************************************************************************)
C3_UnknownTool ==
  \A i \in Slots :
    (pc[i] # "idle" /\ request[i].name \notin RegisteredNames) =>
      /\ calls[i] = <<>>
      /\ pc[i] \in {"called", "done"}
      /\ Done(i) =>
           /\ returned[i] =
                <<[content |-> <<[type |-> "text",
                                  text |-> "Unknown tool: " \o request[i].name]>>,
                   isError |-> TRUE]>>
           /\ ~StartsWith(TheText(i), "Error:")

C3_Witness ==
  \E i \in Slots :
    /\ Done(i)
    /\ request[i].name = "maps_route"
    /\ ~HasArguments(i)
    /\ TheText(i) = "Unknown tool: maps_route"

(***************************************************************************)
(* Further vocabulary: the envelope a caller expects, and what makes an    *)
(* arguments object match the advertised schema.                           *)
(***************************************************************************)
Expected(text, isError) ==
  [content |-> <<[type |-> "text", text |-> text]>>, isError |-> isError]

Name(i) == request[i].name
Given(i, key) == Arg(request[i].args, key)

RegistryEntry(name) ==
  MAPS_TOOLS[CHOOSE j \in 1..Len(MAPS_TOOLS) : MAPS_TOOLS[j].name = name]

\* every advertised property is present with its declared type (and in its enum)
ValidArguments(i) ==
  /\ Name(i) \in RegisteredNames
  /\ HasArguments(i)
  /\ LET properties == RegistryEntry(Name(i)).properties
     IN \A j \in 1..Len(properties) :
          /\ Given(i, properties[j].name).k = properties[j].type
          /\ properties[j].enum # <<>> =>
               \E e \in 1..Len(properties[j].enum) :
                 properties[j].enum[e] = Given(i, properties[j].name).s

\* an exception is raised while the invocation is translated, sent or normalised
HardFault(i) ==
  /\ Name(i) \in RegisteredNames
  /\ \/ ~HasArguments(i)
     \/ Name(i) = "maps_display" /\ ~DisplayBuilt(i)
     \/ /\ Name(i) \in NetworkTools
        /\ HasArguments(i)
        /\ \/ upstream[i].kind \in {"reject", "malformed"}
           \/ upstream[i].kind = "body" /\ IsNullish(upstream[i].data)
           \/ NonEmptyList(i) /\ ~UsableResult(i)

(***************************************************************************)
(* C4: when the upstream call of an invocation throws or fails on the      *)
(* network, or any exception is raised while the invocation is translated  *)
(* or normalised, the envelope has isError true and the text "Error: "     *)
(* followed by the exception's message.                                    *)
(***************************************************************************)
C4_ErrorEnvelope ==
  \A i \in Slots :
    Done(i) =>
      /\ UpstreamFailed(i) =>
           TheEnvelope(i) = Expected("Error: " \o upstream[i].error.message, TRUE)
      /\ HardFault(i) =>
           /\ TheEnvelope(i).isError = TRUE
           /\ StartsWith(TheText(i), "Error: ")
           /\ Len(TheText(i)) > Len("Error: ")
      /\ (Name(i) \in RegisteredNames /\ ~HasArguments(i)) =>
           StartsWith(TheText(i), "Error: Cannot destructure property ")

C4_Witness ==
  \E i \in Slots :
    /\ Done(i)
    /\ Name(i) = "maps_directions"
    /\ upstream[i].kind = "reject"
    /\ calls[i] # <<>>
    /\ TheEnvelope(i) = Expected("Error: network timeout", TRUE)

(***************************************************************************)
(* C5: a network-backed tool invoked with valid arguments against an       *)
(* upstream that answers with an empty result list returns isError true    *)
(* and its own empty-result text; maps_display has no such text: against   *)
(* the same upstream it returns isError false.                             *)
(***************************************************************************)
EmptyMessage(i) ==
  CASE Name(i) = "maps_geocode" -> "Geocoding failed: No results found"
    [] Name(i) = "maps_reverse_geocode" -> "Reverse geocoding failed: No results found"
    [] Name(i) = "maps_directions" -> "Routing failed: No routes found"
    [] Name(i) = "maps_search_places" ->
         "No places found for query: " \o Given(i, "query").s
    [] Name(i) = "maps_get_traffic_incidents" ->
         "No traffic incidents found in the radius of " \o ToString(Given(i, "radius").n)
           \o " meters around " \o Given(i, "center").s

C5_EmptyResult ==
  \A i \in Slots :
    (Done(i) /\ ValidArguments(i) /\ EmptyList(i)) =>
      IF Name(i) \in NetworkTools
      THEN TheEnvelope(i) = Expected(EmptyMessage(i), TRUE)
      ELSE TheEnvelope(i).isError = FALSE

\* the statement for all six tools: an empty upstream result gives isError true
C5_AllSixReportEmpty ==
  \A i \in Slots :
    (Done(i) /\ ValidArguments(i) /\ EmptyList(i)) => TheEnvelope(i).isError = TRUE

C5_Witness ==
  \E i \in Slots :
    /\ Done(i)
    /\ Name(i) = "maps_get_traffic_incidents"
    /\ ValidArguments(i)
    /\ EmptyList(i)
    /\ TheText(i) =
         "No traffic incidents found in the radius of 500 meters around 52.5,13.4"

(***************************************************************************)
(* C6: an invocation never issues more than one outbound call; when it has *)
(* returned it has issued exactly one if it names a network-backed tool    *)
(* and carries an arguments object, and none otherwise (maps_display, an   *)
(* unknown name, or an invocation without an arguments object).            *)
(***************************************************************************)
C6_OutboundCalls ==
  \A i \in Slots :
    /\ Len(calls[i]) <= 1
    /\ Done(i) =>
         Len(calls[i]) = (IF Name(i) \in NetworkTools /\ HasArguments(i) THEN 1 ELSE 0)

\* the statement for any invocation: one call per network-backed tool, none for
\* maps_display
C6_OnePerNetworkTool ==
  \A i \in Slots :
    (Done(i) /\ Name(i) \in RegisteredNames) =>
      Len(calls[i]) = (IF Name(i) = "maps_display" THEN 0 ELSE 1)

C6_Witness ==
  \E i \in Slots :
    /\ Done(i)
    /\ Name(i) = "maps_geocode"
    /\ HasArguments(i)
    /\ upstream[i].kind = "reject"
    /\ Len(calls[i]) = 1

(***************************************************************************)
(* C7: for maps_get_traffic_incidents with n >= 1 upstream results the     *)
(* success payload has min(n, 10) entries, entry j being the mapping of    *)
(* upstream result j: upstream order is kept and the results after the     *)
(* tenth are dropped.                                                      *)
(***************************************************************************)
FirstTen(list) == IF Len(list) < 10 THEN Len(list) ELSE 10

C7_FirstTenIncidents ==
  \A i \in Slots :
    (Done(i) /\ Name(i) = "maps_get_traffic_incidents" /\ UsableResult(i)) =>
      LET list == TheList(i).elems
      IN TheEnvelope(i) =
           Expected(JsonStringify(JArr([j \in 1..FirstTen(list) |-> IncidentEntry(list[j])]),
                                  0),
                    FALSE)

C7_Witness ==
  \E i \in Slots :
    /\ Done(i)
    /\ Name(i) = "maps_get_traffic_incidents"
    /\ HasList(i)
    /\ Len(TheList(i).elems) > 11
    /\ TheList(i).elems[11] = JNull
    /\ TheEnvelope(i).isError = FALSE

(***************************************************************************)
(* C8: for maps_geocode and maps_reverse_geocode with a non-empty upstream *)
(* list, the envelope is the one the first item alone gives: the payload   *)
(* holds its position, address label and id, and the items after it never  *)
(* influence the envelope.                                                 *)
(***************************************************************************)
FirstItem(i) == TheList(i).elems[1]

FirstItemPayload(i) ==
  IF Name(i) = "maps_geocode"
  THEN JObj(<<"location", "address", "id">>,
            <<Prop(FirstItem(i), "position"), Prop(Prop(FirstItem(i), "address"), "label"),
              Prop(FirstItem(i), "id")>>)
  ELSE JObj(<<"address", "position", "id">>,
            <<Prop(Prop(FirstItem(i), "address"), "label"), Prop(FirstItem(i), "position"),
              Prop(FirstItem(i), "id")>>)

C8_FirstItemOnly ==
  \A i \in Slots :
    (/\ Done(i)
     /\ Name(i) \in {"maps_geocode", "maps_reverse_geocode"}
     /\ HasArguments(i)
     /\ NonEmptyList(i)) =>
      /\ TheEnvelope(i) =
           TryCatch(Normalize(Name(i), request[i].args,
                              ListBody(Name(i), JArr(<<FirstItem(i)>>)))).returns[1]
      /\ UsableResult(i) =>
           TheEnvelope(i) = Expected(JsonStringify(FirstItemPayload(i), 2), FALSE)

C8_Witness ==
  \E i \in Slots :
    /\ Done(i)
    /\ Name(i) = "maps_reverse_geocode"
    /\ HasArguments(i)
    /\ HasList(i)
    /\ Len(TheList(i).elems) >= 3
    /\ TheList(i).elems[2] = JNull
    /\ TheEnvelope(i).isError = FALSE

(***************************************************************************)
(* C9: maps_display given a center string, a zoom level and a style        *)
(* returns isError false with the payload {image_url}; the URL contains    *)
(* center:<center>;zoom=<zoomLevel> and style=<style>, where <center> is   *)
(* the center argument with every white-space character removed, so the    *)
(* URL depends on the center only through its other characters.            *)
(***************************************************************************)
\* the characters of s that are no white space, in order
NonSpace[s \in STRING] ==
  IF s = "" THEN ""
  ELSE (IF SubSeq(s, 1, 1) \in WhiteSpace THEN "" ELSE SubSeq(s, 1, 1))
         \o NonSpace[SubSeq(s, 2, Len(s))]

DisplayArguments(i) ==
  /\ Name(i) = "maps_display"
  /\ HasArguments(i)
  /\ Given(i, "center").k = "string"
  /\ Given(i, "zoomLevel").k = "number"
  /\ Given(i, "style").k = "string"

C9_DisplayUrl ==
  \A i \in Slots :
    (Done(i) /\ DisplayArguments(i)) =>
      LET center == NonSpace[Given(i, "center").s]
          zoom == ToString(Given(i, "zoomLevel").n)
          style == Given(i, "style").s
      IN /\ TheEnvelope(i).isError = FALSE
         /\ TheEnvelope(i) =
              Expected("{\"image_url\":\"https://maps.hereapi.com/mia/v3/base/mc/center:"
                         \o center \o ";zoom=" \o zoom \o "/480x370/png8?apikey="
                         \o HERE_MAPS_API_KEY \o "&style=" \o style \o "\"}",
                       FALSE)
         /\ Contains(TheText(i), "center:" \o center \o ";zoom=" \o zoom)
         /\ Contains(TheText(i), "style=" \o style)
         /\ \A k \in 1..Len(TheText(i)) : SubSeq(TheText(i), k, k) \notin WhiteSpace

C9_Witness ==
  \E i \in Slots :
    /\ Done(i)
    /\ Name(i) = "maps_display"
    /\ HasArguments(i)
    /\ Given(i, "center") = JStr(" 52.5 ,\t13.4 ")
    /\ Contains(TheText(i), "center:52.5,13.4;zoom=14")
    /\ Contains(TheText(i), "style=explore.day")

(***************************************************************************)
(* C10: whatever invocations were served before it, a list-tools call      *)
(* returns the same ordered sequence of six definitions; the names in it   *)
(* are pairwise distinct; every registered name has a route of the         *)
(* dispatcher and every route has a registered name.                       *)
(***************************************************************************)
SixNames ==
  <<"maps_geocode", "maps_reverse_geocode", "maps_directions", "maps_search_places",
    "maps_get_traffic_incidents", "maps_display">>

C10_Registry ==
  /\ listed # <<>> =>
       /\ listed = MAPS_TOOLS
       /\ [j \in 1..Len(listed) |-> listed[j].name] = SixNames
       /\ \A j, l \in 1..Len(listed) : listed[j].name = listed[l].name => j = l
  /\ RegisteredNames = Routes
  /\ \A i \in Slots :
       Done(i) => (Name(i) \in RegisteredNames <=> TheText(i) # "Unknown tool: " \o Name(i))

C10_Witness ==
  /\ listed = MAPS_TOOLS
  /\ \E i \in Slots :
       /\ Done(i)
       /\ Name(i) = "maps_display"
       /\ TheEnvelope(i).isError = FALSE

(***************************************************************************)
(* C11: an invocation of a registered tool whose arguments object omits a  *)
(* required field ends in the catch clause's envelope (isError true, text  *)
(* "Error: ...") and issues no outbound call.                              *)
(***************************************************************************)
\* the arguments object is there and lacks a field the schema requires
OmitsRequired(i) ==
  /\ Name(i) \in RegisteredNames
  /\ HasArguments(i)
  /\ \E j \in 1..Len(RegistryEntry(Name(i)).required) :
       Given(i, RegistryEntry(Name(i)).required[j]) = JUndef

C11_MissingFieldFails ==
  \A i \in Slots :
    (Done(i) /\ OmitsRequired(i)) =>
      /\ TheEnvelope(i).isError = TRUE
      /\ StartsWith(TheText(i), "Error: ")
      /\ calls[i] = <<>>

(***************************************************************************)
(* C12: with several invocations in flight and their outbound calls        *)
(* settling in any order, the envelope and the outbound call of each       *)
(* invocation are those it gives when served alone, a function of its own  *)
(* name, arguments and upstream response; a step of one invocation leaves  *)
(* everything the other invocations hold unchanged.                        *)
(***************************************************************************)
\* the envelope of an invocation served alone
AloneEnvelope(name, args, up) ==
  IF name \notin Routes THEN UnknownTool(name)
  ELSE IF ~args.present THEN CatchEnvelope(DestructureError(FirstParam(name)))
  ELSE IF name = "maps_display"
  THEN TryCatch(HandleDisplay(Arg(args, "center"), Arg(args, "zoomLevel"),
                              Arg(args, "style"))).returns[1]
  ELSE IF up.kind \in {"reject", "malformed"} THEN CatchEnvelope(up.error)
  ELSE TryCatch(Normalize(name, args, up.data)).returns[1]

\* the outbound calls of an invocation served alone
AloneCalls(name, args) ==
  IF name \in NetworkTools /\ args.present THEN <<OutboundRequest(name, args)>> ELSE <<>>

Untouched(j) ==
  /\ pc'[j] = pc[j]
  /\ request'[j] = request[j]
  /\ upstream'[j] = upstream[j]
  /\ calls'[j] = calls[j]
  /\ returned'[j] = returned[j]
  /\ uncaught'[j] = uncaught[j]

C12_Independent ==
  /\ [](\A i \in Slots :
          Done(i) =>
            /\ returned[i] = <<AloneEnvelope(Name(i), request[i].args, upstream[i])>>
            /\ calls[i] = AloneCalls(Name(i), request[i].args))
  /\ [][\A i, j \in Slots : (i # j /\ pc'[i] # pc[i]) => Untouched(j)]_vars

C12_Witness ==
  \E i, j \in Slots :
    /\ i # j
    /\ Done(i) /\ Done(j)
    /\ Name(i) = "maps_geocode" /\ upstream[i].kind = "reject" /\ calls[i] # <<>>
    /\ TheEnvelope(i).isError = TRUE
    /\ Name(j) = "maps_directions"
    /\ TheEnvelope(j).isError = FALSE

(***************************************************************************)
(* C13: within one invocation of a network-backed tool the request is      *)
(* issued first, then the response is received or the call fails, then the *)
(* envelope is returned: no envelope is returned while the outbound call   *)
(* is in flight or its body is being read, and no outbound call is started *)
(* or left pending once the envelope has been returned.                    *)
(***************************************************************************)
\* the outbound call of invocation i is issued and has not settled
InFlight(i) == calls[i] # <<>> /\ pc[i] = "fetching"

\* the response arrived and its body is still being read
ReadingBody(i) == calls[i] # <<>> /\ pc[i] = "parsing"

C13_Ordered ==
  /\ [](\A i \in Slots : returned[i] # <<>> => ~InFlight(i) /\ ~ReadingBody(i))
  /\ [][\A i \in Slots :
          \* the request is issued once, by the invocation's first step
          /\ calls'[i] # calls[i] /\ calls'[i] # <<>> =>
               /\ pc[i] = "called" /\ calls[i] = <<>> /\ returned[i] = <<>>
               /\ InFlight(i)'
          \* a call in flight ends with the response or with the failure
          /\ InFlight(i) /\ ~InFlight(i)' =>
               IF upstream[i].kind = "reject"
               THEN returned'[i] # <<>> /\ pc'[i] = "done"
               ELSE ReadingBody(i)' /\ returned'[i] = <<>>
          \* the envelope of an invocation that issued a call follows the
          \* failure of the call or the reading of the response
          /\ returned[i] = <<>> /\ returned'[i] # <<>> /\ calls[i] # <<>> =>
               \/ InFlight(i) /\ upstream[i].kind = "reject"
               \/ ReadingBody(i)
          \* after the envelope, no call is started
          /\ returned[i] # <<>> => calls'[i] = calls[i] \/ calls'[i] = <<>>]_vars

C13_Witness ==
  \E i \in Slots :
    /\ Done(i)
    /\ Name(i) = "maps_search_places"
    /\ Len(calls[i]) = 1
    /\ upstream[i].kind = "body"
    /\ returned[i] # <<>>
    /\ TheEnvelope(i).isError = FALSE

(***************************************************************************)
(* C14: for maps_directions with a non-empty route list the envelope is    *)
(* the one the first section of the first route alone gives; when that     *)
(* route has no section, or decoding the section's polyline fails, the     *)
(* envelope is an error envelope (isError true, "Error: ..."), never a     *)
(* success envelope.                                                       *)
(***************************************************************************)
FirstRoute(i) == TheList(i).elems[1]

\* the first route has a section whose polyline the decoder accepts
Decodable(i) ==
  /\ FirstRoute(i).k = "object"
  /\ Prop(FirstRoute(i), "sections").k = "array"
  /\ Prop(FirstRoute(i), "sections").elems # <<>>
  /\ Prop(FirstRoute(i), "sections").elems[1].k = "object"
  /\ Prop(Prop(FirstRoute(i), "sections").elems[1], "polyline").k = "string"
  /\ Prop(Prop(FirstRoute(i), "sections").elems[1], "polyline").s \in ValidPolylines

FirstSection(i) == Prop(FirstRoute(i), "sections").elems[1]

\* the body cut down to the first section of the first route
FirstSectionOnly(i) ==
  ListBody("maps_directions",
           JArr(<<JObj(<<"sections">>, <<JArr(<<FirstSection(i)>>)>>)>>))

C14_FirstSectionOrError ==
  \A i \in Slots :
    (Done(i) /\ Name(i) = "maps_directions" /\ HasArguments(i) /\ NonEmptyList(i)) =>
      IF Decodable(i)
      THEN /\ TheEnvelope(i).isError = FALSE
           /\ TheEnvelope(i) =
                TryCatch(Normalize(Name(i), request[i].args, FirstSectionOnly(i))).returns[1]
           /\ TheText(i) =
                JsonStringify(
                  JObj(<<"summary", "polyline", "actions">>,
                       <<Prop(FirstSection(i), "summary"),
                         RoundedPoints(DecodeString(Prop(FirstSection(i), "polyline")).polyline),
                         Prop(FirstSection(i), "actions")>>), 0)
      ELSE /\ TheEnvelope(i).isError = TRUE
           /\ StartsWith(TheText(i), "Error: ")
           /\ ~Contains(TheText(i), "polyline\":[")
           /\ uncaught[i] = <<>>

C14_Witness ==
  \E i \in Slots :
    /\ Done(i)
    /\ Name(i) = "maps_directions"
    /\ NonEmptyList(i)
    /\ Prop(FirstRoute(i), "sections").k = "array"
    /\ Prop(FirstRoute(i), "sections").elems # <<>>
    /\ Prop(FirstSection(i), "polyline") = JStr("BFoz5xJ67i1B1B7PzIhaxL7")
    /\ TheEnvelope(i) = Expected("Error: Invalid encoding", TRUE)

(***************************************************************************)
(* C15: for the five network-backed tools a parsed body without the result *)
(* list field (items / routes / results), such as an upstream error body,  *)
(* gets the tool's empty-result envelope (isError true), not the catch     *)
(* clause's "Error: ..." envelope; and the HTTP status of the response     *)
(* never changes the envelope the body gets.                               *)
(***************************************************************************)
\* the empty-result text of the tool, for whatever arguments were given
SoftMessage(i) ==
  CASE Name(i) = "maps_geocode" -> "Geocoding failed: No results found"
    [] Name(i) = "maps_reverse_geocode" -> "Reverse geocoding failed: No results found"
    [] Name(i) = "maps_directions" -> "Routing failed: No routes found"
    [] Name(i) = "maps_search_places" ->
         "No places found for query: " \o ToStr(Given(i, "query"))
    [] Name(i) = "maps_get_traffic_incidents" ->
         "No traffic incidents found in the radius of " \o ToStr(Given(i, "radius"))
           \o " meters around " \o ToStr(Given(i, "center"))

\* the body is an object that has no result list field at all
ListAbsent(i) == AnsweredObject(i) /\ TheList(i) = JUndef

C15_AbsentListIsEmpty ==
  \A i \in Slots :
    (Done(i) /\ Name(i) \in NetworkTools /\ HasArguments(i)) =>
      /\ ListAbsent(i) =>
           /\ TheEnvelope(i) = Expected(SoftMessage(i), TRUE)
           /\ ~StartsWith(TheText(i), "Error:")
      /\ EmptyList(i) => TheEnvelope(i) = Expected(SoftMessage(i), TRUE)
      /\ upstream[i].kind = "body" =>
           TheEnvelope(i) =
             AloneEnvelope(Name(i), request[i].args, Body(200, upstream[i].data))

C15_Witness ==
  \E i \in Slots :
    /\ Done(i)
    /\ Name(i) = "maps_directions"
    /\ HasArguments(i)
    /\ upstream[i] = Body(401, ErrorBody)
    /\ TheEnvelope(i) = Expected("Routing failed: No routes found", TRUE)

====
